---- MODULE Spec2Model ----
(***************************************************************************)
(* Versioned path resolution and glob/existence emulation of               *)
(* kedro.extras.datasets.spark.spark_dataset (SparkDataSet).               *)
(*                                                                         *)
(* A Python str is modelled as a sequence of one-character strings, so     *)
(* that split, join, startswith, slicing, fnmatch and sorted are computed  *)
(* character by character, as the interpreter computes them.               *)
(***************************************************************************)
EXTENDS Integers, Sequences, FiniteSets, TLC

VARIABLES
    pattern,   \* the str argument of the adapter function under test
    dirs,      \* backend: the set of directory paths (internal form, "/p/sub")
    files,     \* backend: the set of plain-file paths
    out,       \* the outcome of the last adapter call
    adapter,   \* the backend variant chosen by SparkDataSet.__init__
    cfg,       \* the Version(load, save) the data set is constructed with
    pc,        \* per process: position inside load()/save()
    cache,     \* per process: the memoized load version of the session
    ret,       \* per process: the outcome of the last operation
    calls,     \* per process: number of adapter calls (glob/exists) so far
    first      \* per process: the first path resolve_load_path returned

vars == <<pattern, dirs, files, out, adapter, cfg, pc, cache, ret, calls, first>>

session == <<adapter, cfg, pc, cache, ret, calls, first>>

(***************************************************************************)
(* Bounds of the model.                                                    *)
(***************************************************************************)
MaxLen == 4      \* longest pattern given to _parse_glob_pattern in SpecParse
MaxCalls == 2    \* adapter calls one process makes in one session at most

(***************************************************************************)
(* str primitives.                                                         *)
(***************************************************************************)
None == <<"None">>

\* ord(c) for the characters the model uses (ASCII code points).
Ord(c) ==
    CASE c = "!" -> 33  [] c = "*" -> 42  [] c = "-" -> 45  [] c = "." -> 46
      [] c = "/" -> 47  [] c = "1" -> 49  [] c = "2" -> 50  [] c = ":" -> 58
      [] c = "?" -> 63  [] c = "[" -> 91  [] c = "]" -> 93  [] c = "a" -> 97
      [] c = "b" -> 98  [] c = "d" -> 100 [] c = "f" -> 102 [] c = "g" -> 103
      [] c = "h" -> 104 [] c = "l" -> 108 [] c = "o" -> 111 [] c = "p" -> 112
      [] c = "s" -> 115 [] c = "t" -> 116 [] c = "u" -> 117 [] c = "x" -> 120

\* a < b for Python str: lexicographic by code point, a proper prefix first.
RECURSIVE StrLess(_, _)
StrLess(a, b) ==
    IF b = <<>> THEN FALSE
    ELSE IF a = <<>> THEN TRUE
    ELSE IF Head(a) # Head(b) THEN Ord(Head(a)) < Ord(Head(b))
    ELSE StrLess(Tail(a), Tail(b))

\* s.startswith(p)
StartsWith(s, p) ==
    Len(p) <= Len(s) /\ SubSeq(s, 1, Len(p)) = p

\* s[n:]
DropFirst(s, n) ==
    SubSeq(s, n + 1, Len(s))

\* s.split("/"): always at least one part, empty parts kept.
RECURSIVE SplitFrom(_, _, _)
SplitFrom(s, i, cur) ==
    IF i > Len(s) THEN <<cur>>
    ELSE IF s[i] = "/" THEN <<cur>> \o SplitFrom(s, i + 1, <<>>)
    ELSE SplitFrom(s, i + 1, Append(cur, s[i]))

Split(s) ==
    SplitFrom(s, 1, <<>>)

\* "/".join(parts)
RECURSIVE Join(_)
Join(parts) ==
    IF parts = <<>> THEN <<>>
    ELSE IF Len(parts) = 1 THEN parts[1]
    ELSE parts[1] \o <<"/">> \o Join(Tail(parts))

\* sorted(set of str): ascending, one entry per element.
RECURSIVE Sorted(_)
Sorted(S) ==
    IF S = {} THEN <<>>
    ELSE LET m == CHOOSE x \in S : \A y \in S \ {x} : StrLess(x, y)
         IN  <<m>> \o Sorted(S \ {m})

\* the set of elements of a list
Elems(seq) ==
    {seq[i] : i \in DOMAIN seq}

(***************************************************************************)
(* _parse_glob_pattern (lines 56-63).                                      *)
(***************************************************************************)
special == {"*", "?", "["}

\* any(char in part for char in special)
AnySpecialIn(part) ==
    \E i \in DOMAIN part : part[i] \in special

\* the for loop of lines 59-62: append parts until the first one that has a
\* special character, then break.
RECURSIVE CleanParts(_, _)
CleanParts(parts, clean) ==
    IF parts = <<>> THEN clean
    ELSE IF AnySpecialIn(Head(parts)) THEN clean
    ELSE CleanParts(Tail(parts), Append(clean, Head(parts)))

\* a plausible slip: `continue` instead of `break` (later literal parts kept)
RECURSIVE CleanPartsContinue(_, _)
CleanPartsContinue(parts, clean) ==
    IF parts = <<>> THEN clean
    ELSE IF AnySpecialIn(Head(parts)) THEN CleanPartsContinue(Tail(parts), clean)
    ELSE CleanPartsContinue(Tail(parts), Append(clean, Head(parts)))

ParseGlobNoBreak(pat) ==
    Join(CleanPartsContinue(Split(pat), <<>>))

_parse_glob_pattern(pat) ==
    Join(CleanParts(Split(pat), <<>>))

(***************************************************************************)
(* _split_filepath and _strip_dbfs_prefix (lines 66-74).                   *)
(***************************************************************************)
DBFS == <<"/", "d", "b", "f", "s">>            \* "/dbfs"
DBFS_SCHEME == <<"d", "b", "f", "s", ":">>     \* "dbfs:"
HDFS_PREFIX == <<"h", "d", "f", "s", ":", "/", "/">>   \* "hdfs://"

\* the first index of "://" in s at or after i, 0 when there is none
RECURSIVE FindSchemeSep(_, _)
FindSchemeSep(s, i) ==
    IF i + 2 > Len(s) THEN 0
    ELSE IF SubSeq(s, i, i + 2) = <<":", "/", "/">> THEN i
    ELSE FindSchemeSep(s, i + 1)

\* filepath.split("://", 1): (prefix with "://", the rest), or ("", filepath)
_split_filepath(filepath) ==
    LET k == FindSchemeSep(filepath, 1)
    IN  IF k = 0 THEN <<(<<>>), filepath>>
        ELSE <<SubSeq(filepath, 1, k + 2), DropFirst(filepath, k + 2)>>

\* a plausible slip: the prefix is never removed
StripNothing(path, prefix) ==
    path

\* path[len(prefix):] if path.startswith(prefix) else path
_strip_dbfs_prefix(path, prefix) ==
    IF StartsWith(path, prefix) THEN DropFirst(path, Len(prefix)) ELSE path

(***************************************************************************)
(* fnmatch.fnmatch(name, pat) on POSIX: "*" any run (also of "/"), "?" any *)
(* one character, "[seq]" one character of seq ("[!seq]" one not in seq),  *)
(* a "[" that is never closed is a literal.  Ranges "a-z" inside brackets  *)
(* are not modelled; no pattern of the model has "-" inside brackets.      *)
(***************************************************************************)
\* fnmatch.translate's scan for the "]" closing the class opened before j
RECURSIVE SkipToClose(_, _)
SkipToClose(pat, j) ==
    IF j > Len(pat) THEN 0
    ELSE IF pat[j] = "]" THEN j
    ELSE SkipToClose(pat, j + 1)

\* index of the "]" that closes the "[" at position i, 0 when unclosed
ClassEnd(pat, i) ==
    LET j1 == IF i + 1 <= Len(pat) /\ pat[i + 1] = "!" THEN i + 2 ELSE i + 1
        j2 == IF j1 <= Len(pat) /\ pat[j1] = "]" THEN j1 + 1 ELSE j1
    IN  SkipToClose(pat, j2)

InClass(c, stuff) ==
    IF stuff # <<>> /\ stuff[1] = "!"
    THEN \A k \in 2..Len(stuff) : stuff[k] # c
    ELSE \E k \in 1..Len(stuff) : stuff[k] = c

RECURSIVE MatchFrom(_, _, _, _)
MatchFrom(name, i, pat, j) ==
    IF j > Len(pat) THEN i > Len(name)
    ELSE IF pat[j] = "*"
         THEN \/ MatchFrom(name, i, pat, j + 1)
              \/ i <= Len(name) /\ MatchFrom(name, i + 1, pat, j)
    ELSE IF pat[j] = "?"
         THEN i <= Len(name) /\ MatchFrom(name, i + 1, pat, j + 1)
    ELSE IF pat[j] = "[" /\ ClassEnd(pat, j) # 0
         THEN /\ i <= Len(name)
              /\ InClass(name[i], SubSeq(pat, j + 1, ClassEnd(pat, j) - 1))
              /\ MatchFrom(name, i + 1, pat, ClassEnd(pat, j) + 1)
    ELSE /\ i <= Len(name)
         /\ name[i] = pat[j]
         /\ MatchFrom(name, i + 1, pat, j + 1)

fnmatch(name, pat) ==
    MatchFrom(name, 1, pat, 1)

(***************************************************************************)
(* pathlib.PurePosixPath: str(PurePosixPath(a) / b).  Empty and "." parts  *)
(* are dropped, the root is "/" (or "//" for exactly two leading slashes). *)
(***************************************************************************)
RECURSIVE LeadingSlashes(_)
LeadingSlashes(s) ==
    IF s # <<>> /\ Head(s) = "/" THEN 1 + LeadingSlashes(Tail(s)) ELSE 0

PosixRoot(s) ==
    IF LeadingSlashes(s) = 0 THEN <<>>
    ELSE IF LeadingSlashes(s) = 2 THEN <<"/", "/">>
    ELSE <<"/">>

PosixParts(s) ==
    SelectSeq(Split(s), LAMBDA part : part # <<>> /\ part # <<".">>)

PosixStr(root, parts) ==
    IF root = <<>> /\ parts = <<>> THEN <<".">> ELSE root \o Join(parts)

\* str(PurePosixPath(s))
PurePosixPath(s) ==
    PosixStr(PosixRoot(s), PosixParts(s))

\* str(PurePosixPath(a) / b)
PurePosixJoin(a, b) ==
    IF PosixRoot(b) # <<>> THEN PurePosixPath(b)
    ELSE PosixStr(PosixRoot(a), PosixParts(a) \o PosixParts(b))

\* PurePosixPath(s).name
PosixName(s) ==
    IF PosixParts(s) = <<>> THEN <<>> ELSE PosixParts(s)[Len(PosixParts(s))]

\* str(PurePosixPath(s).parent)
PosixParent(s) ==
    IF PosixParts(s) = <<>> THEN PurePosixPath(s)
    ELSE PosixStr(PosixRoot(s), SubSeq(PosixParts(s), 1, Len(PosixParts(s)) - 1))

(***************************************************************************)
(* The backend, seen through the two collaborators of the adapters:        *)
(* dbutils.fs.ls (one-level listing, FileInfo.path carries the "dbfs:"     *)
(* scheme and a trailing "/" for a directory; fails on a missing or empty  *)
(* path) and hdfs.InsecureClient (status, walk).  A path is looked up by   *)
(* its absolute normal form.                                               *)
(***************************************************************************)
ROOT == <<"/">>

Key(path) ==
    PosixStr(ROOT, PosixParts(path))

Present(path, D, F) ==
    path # <<>> /\ Key(path) \in D \cup F

\* e is directory d plus one more path segment
DirectlyUnder(e, d) ==
    LET base == IF d = ROOT THEN ROOT ELSE d \o <<"/">>
    IN  /\ StartsWith(e, base)
        /\ Len(e) > Len(base)
        /\ \A i \in (Len(base) + 1)..Len(e) : e[i] # "/"

Children(d, S) ==
    {e \in S : DirectlyUnder(e, d)}

\* dbutils.fs.ls(path)
Ls(path, D, F) ==
    IF ~Present(path, D, F) THEN [ok |-> FALSE, infos |-> {}]
    ELSE IF Key(path) \in F
    THEN [ok |-> TRUE,
          infos |-> {[path |-> DBFS_SCHEME \o Key(path), isDir |-> FALSE]}]
    ELSE [ok |-> TRUE,
          infos |->
            {[path |-> DBFS_SCHEME \o e \o <<"/">>, isDir |-> TRUE] :
                e \in Children(Key(path), D)}
            \cup
            {[path |-> DBFS_SCHEME \o e, isDir |-> FALSE] :
                e \in Children(Key(path), F)}]

\* InsecureClient.status(path, strict=False): None (FALSE) when absent
Status(path, D, F) ==
    Present(path, D, F)

\* d is top or below top
Under(d, top) ==
    d = top \/ StartsWith(d, IF top = ROOT THEN ROOT ELSE top \o <<"/">>)

\* InsecureClient.walk(prefix): HdfsError when prefix is absent, nothing for a
\* plain file, else one (dpath, fnames) per directory at or below prefix
Walk(prefix, D, F) ==
    IF ~Present(prefix, D, F) THEN [ok |-> FALSE, steps |-> {}]
    ELSE [ok |-> TRUE,
          steps |-> {[dpath |-> d,
                      fnames |-> {PosixName(f) : f \in Children(d, F)}] :
                        d \in {e \in D : Under(e, Key(prefix))}}]

(***************************************************************************)
(* _dbfs_glob (lines 77-101).  The outcome records whether the call raised *)
(* and the arguments of the dbutils.fs.ls calls it made.                   *)
(***************************************************************************)
Last(seq) ==
    seq[Len(seq)]

\* lines 94-100 for one file_info: the candidate path, or none
DbfsCandidate(info, pat) ==
    PurePosixJoin(_strip_dbfs_prefix(info.path, DBFS_SCHEME), Last(Split(pat)))

\* a plausible slip: the isDir() test of line 94 is missing
DbfsMatchedAnyEntry(infos, pat) ==
    {DBFS \o path :
        path \in {c \in {DbfsCandidate(info, pat) : info \in infos} :
                     fnmatch(c, pat)}}

DbfsMatched(infos, pat) ==
    {DBFS \o path :
        path \in {c \in {DbfsCandidate(info, pat) :
                            info \in {x \in infos : x.isDir}} :
                     fnmatch(c, pat)}}

\* a plausible slip: the matches are returned without the "/dbfs" prefix
DbfsGlobNoReprefix(pat0, D, F) ==
    LET pat    == _strip_dbfs_prefix(pat0, DBFS)
        prefix == _parse_glob_pattern(pat)
        listed == Ls(prefix, D, F)
    IN  IF ~listed.ok
        THEN [raised |-> TRUE, value |-> <<>>, ls |-> <<prefix>>]
        ELSE [raised |-> FALSE,
              value |-> Sorted({DropFirst(m, Len(DBFS)) :
                                   m \in DbfsMatched(listed.infos, pat)}),
              ls |-> <<prefix>>]

_dbfs_glob(pat0, D, F) ==
    LET pat    == _strip_dbfs_prefix(pat0, DBFS)
        prefix == _parse_glob_pattern(pat)
        listed == Ls(prefix, D, F)
    IN  IF ~listed.ok
        THEN [raised |-> TRUE, value |-> <<>>, ls |-> <<prefix>>]
        ELSE [raised |-> FALSE,
              value |-> Sorted(DbfsMatched(listed.infos, pat)),
              ls |-> <<prefix>>]

(***************************************************************************)
(* _dbfs_exists (lines 126-143).                                           *)
(***************************************************************************)
\* a plausible slip: no try/except around the listing
DbfsExistsNoCatch(pat0, D, F) ==
    LET file == _parse_glob_pattern(_strip_dbfs_prefix(pat0, DBFS))
    IN  [raised |-> ~Ls(file, D, F).ok, value |-> TRUE, ls |-> <<file>>]

_dbfs_exists(pat0, D, F) ==
    LET file == _parse_glob_pattern(_strip_dbfs_prefix(pat0, DBFS))
    IN  [raised |-> FALSE, value |-> Ls(file, D, F).ok, ls |-> <<file>>]

(***************************************************************************)
(* KedroHdfsInsecureClient.hdfs_exists and hdfs_glob (lines 150-185).      *)
(***************************************************************************)
hdfs_exists(hdfs_path, D, F) ==
    [raised |-> FALSE, value |-> Status(hdfs_path, D, F), ls |-> <<>>]

HdfsMatched(steps, pat) ==
    {s.dpath : s \in {x \in steps : fnmatch(x.dpath, pat)}}
    \cup
    UNION {{s.dpath \o <<"/">> \o fname :
               fname \in {n \in s.fnames : fnmatch(s.dpath \o <<"/">> \o n, pat)}} :
           s \in steps}

hdfs_glob(pat, D, F) ==
    LET prefix == IF _parse_glob_pattern(pat) = <<>> THEN ROOT
                  ELSE _parse_glob_pattern(pat)
        walked == Walk(prefix, D, F)
    IN  [raised |-> FALSE,
         value |-> IF walked.ok THEN Sorted(HdfsMatched(walked.steps, pat))
                   ELSE <<>>,
         ls |-> <<>>]

(***************************************************************************)
(* SpecParse: _parse_glob_pattern applied to every pattern of at most      *)
(* MaxLen characters over ParseChars.                                      *)
(***************************************************************************)
ParseChars == {"a", "b", "/", "*", "?", "["}

ParsePatterns ==
    UNION {[1..n -> ParseChars] : n \in 0..MaxLen}

NoOut == [op |-> "none"]

IdleSession ==
    /\ adapter = "none"
    /\ cfg = <<>>
    /\ pc = <<>>
    /\ cache = <<>>
    /\ ret = <<>>
    /\ calls = <<>>
    /\ first = <<>>

InitParse ==
    /\ pattern \in ParsePatterns
    /\ dirs = {}
    /\ files = {}
    /\ out = NoOut
    /\ IdleSession

Parse ==
    /\ out.op = "none"
    /\ out' = [op |-> "parse", value |-> _parse_glob_pattern(pattern)]
    /\ UNCHANGED <<pattern, dirs, files, session>>

NextParse ==
    Parse

SpecParse ==
    InitParse /\ [][NextParse]_vars

(***************************************************************************)
(* Vocabulary of the claim on _parse_glob_pattern, character by character. *)
(***************************************************************************)
\* the characters of s from position i up to the next "/" (or the end)
RECURSIVE SegmentAt(_, _)
SegmentAt(s, i) ==
    IF i > Len(s) \/ s[i] = "/" THEN <<>>
    ELSE <<s[i]>> \o SegmentAt(s, i + 1)

NoMeta(s) ==
    \A i \in DOMAIN s : s[i] \notin {"*", "?", "["}

LiteralPrefixOf(r, p) ==
    /\ NoMeta(r)
    /\ StartsWith(p, r)
    /\ NoMeta(p) => r = p
    /\ ~NoMeta(SegmentAt(p, 1)) => r = <<>>
    /\ r # p =>
          \/ r = <<>> /\ ~NoMeta(SegmentAt(p, 1))
          \/ /\ p[Len(r) + 1] = "/"
             /\ ~NoMeta(SegmentAt(p, Len(r) + 2))

(***************************************************************************)
(* C10: for every pattern, _parse_glob_pattern returns the "/"-join of the *)
(* longest leading run of "/"-separated segments that hold none of * ? [ : *)
(* the result has no metacharacter, is a prefix of the pattern that ends   *)
(* at a segment boundary, is the whole pattern when the pattern has no     *)
(* metacharacter, is empty when the first segment has one, and the segment *)
(* that follows it in the pattern (if any) has a metacharacter.            *)
(***************************************************************************)
C10_ParseLiteralPrefix ==
    out.op = "parse" => LiteralPrefixOf(out.value, pattern)

\* C10 witness: a/*b is parsed to a
C10_Witness ==
    /\ out.op = "parse"
    /\ pattern = <<"a", "/", "*", "b">>
    /\ out.value = <<"a">>


(***************************************************************************)
(* SpecGlob: each adapter function applied once to a pattern and a backend *)
(* drawn from the sets below.                                              *)
(***************************************************************************)
Path(segs) ==
    ROOT \o Join(segs)

SEG_P == <<"p">>
SEG_DATA == <<"d", "a", "t", "a">>
SEG_U == <<"u">>
SEG_SUB == <<"s", "u", "b">>
SEG_1 == <<"1">>
SEG_X == <<"x">>
SEG_ATXT == <<"a", ".", "t", "x", "t">>
SEG_BLOG == <<"b", ".", "l", "o", "g">>

P == Path(<<SEG_P>>)
P_SUB == Path(<<SEG_P, SEG_SUB>>)
P_1 == Path(<<SEG_P, SEG_1>>)
P_1_X == Path(<<SEG_P, SEG_1, SEG_X>>)
P_ATXT == Path(<<SEG_P, SEG_ATXT>>)
P_BLOG == Path(<<SEG_P, SEG_BLOG>>)
DATA == Path(<<SEG_DATA>>)
DATA_X == Path(<<SEG_DATA, SEG_X>>)

\* the trees under /p: absent, or present with some of sub/, 1/, 1/x/, a.txt, b.log
PTrees ==
    {[d |-> {}, f |-> {}]}
    \cup
    {[d |-> {P} \cup ds, f |-> fs] :
        ds \in {{}, {P_SUB}, {P_1}, {P_1, P_1_X}, {P_SUB, P_1}, {P_SUB, P_1, P_1_X}},
        fs \in SUBSET {P_ATXT, P_BLOG}}

\* the trees under /data: absent, empty, or with x/
DataTrees ==
    {{}, {DATA}, {DATA, DATA_X}}

\* patterns: an optional /dbfs mount prefix, a top directory (/u never
\* exists), and a tail
GlobTails ==
    {<<"*", ".", "t", "x", "t">>,
     <<"*">>,
     <<"*", "/", "x">>,
     <<"?", "/", "x">>,
     <<"[", "1", "s", "]", "/", "x">>,
     SEG_SUB,
     <<"1", "/", "x">>,
     SEG_ATXT}

GlobPatterns ==
    {mount \o Path(<<top>>) \o <<"/">> \o tail :
        mount \in {<<>>, DBFS}, top \in {SEG_P, SEG_DATA, SEG_U}, tail \in GlobTails}

InitGlob ==
    /\ pattern \in GlobPatterns
    /\ \E pt \in PTrees, dt \in DataTrees :
          /\ dirs = {ROOT} \cup pt.d \cup dt
          /\ files = pt.f
    /\ out = NoOut
    /\ IdleSession

Outcome(op, o) ==
    [op |-> op, raised |-> o.raised, value |-> o.value, ls |-> o.ls]

CallDbfsGlob ==
    /\ out.op = "none"
    /\ out' = Outcome("dbfs_glob", _dbfs_glob(pattern, dirs, files))
    /\ UNCHANGED <<pattern, dirs, files, session>>

CallDbfsExists ==
    /\ out.op = "none"
    /\ out' = Outcome("dbfs_exists", _dbfs_exists(pattern, dirs, files))
    /\ UNCHANGED <<pattern, dirs, files, session>>

CallHdfsGlob ==
    /\ out.op = "none"
    /\ out' = Outcome("hdfs_glob", hdfs_glob(pattern, dirs, files))
    /\ UNCHANGED <<pattern, dirs, files, session>>

CallHdfsExists ==
    /\ out.op = "none"
    /\ out' = Outcome("hdfs_exists", hdfs_exists(pattern, dirs, files))
    /\ UNCHANGED <<pattern, dirs, files, session>>

NextGlob ==
    \/ CallDbfsGlob
    \/ CallDbfsExists
    \/ CallHdfsGlob
    \/ CallHdfsExists

SpecGlob ==
    InitGlob /\ [][NextGlob]_vars

(***************************************************************************)
(* Vocabulary of the adapter claims, stated on the backend sets and the    *)
(* characters of the pattern.                                              *)
(***************************************************************************)
\* the pattern as the mount-style adapter queries it: without a leading /dbfs
Unmounted(p) ==
    IF StartsWith(p, DBFS) THEN SubSeq(p, Len(DBFS) + 1, Len(p)) ELSE p

\* the literal prefix of p: the one string r with LiteralPrefixOf(r, p)
LiteralPrefix(p) ==
    CHOOSE r \in {SubSeq(p, 1, n) : n \in 0..Len(p)} : LiteralPrefixOf(r, p)

\* the characters of p after its last "/"
LastSegment(p) ==
    LET slashes == {i \in DOMAIN p : p[i] = "/"}
        k == IF slashes = {} THEN 0
             ELSE CHOOSE i \in slashes : \A j \in slashes : j <= i
    IN  SubSeq(p, k + 1, Len(p))

\* the entries of S whose parent directory is d
EntriesUnder(d, S) ==
    {e \in S : e # ROOT /\ PosixParent(e) = d}

HasMarker(s) ==
    \E i \in 1..Len(s) : StartsWith(SubSeq(s, i, Len(s)), DBFS_SCHEME)

Ascending(seq) ==
    \A i \in 1..(Len(seq) - 1) : StrLess(seq[i], seq[i + 1])

\* the listed entries (directories and files) that match the pattern
ListedMatching ==
    {e \in EntriesUnder(LiteralPrefix(Unmounted(pattern)), dirs \cup files) :
        fnmatch(e, Unmounted(pattern))}

(***************************************************************************)
(* C5 as stated: the emulated glob returns exactly the entries listed      *)
(* under the pattern's literal prefix whose full path matches the pattern  *)
(* (in external /dbfs form or in internal form); with children a.txt,      *)
(* b.log, sub/ under p, pattern p/*.txt gives exactly p/a.txt.             *)
(***************************************************************************)
C5_GlobReturnsListedEntries ==
    (out.op = "dbfs_glob" /\ ~out.raised) =>
        \/ Elems(out.value) = ListedMatching
        \/ Elems(out.value) = {DBFS \o e : e \in ListedMatching}

\* each listed directory joined with the last segment of the pattern
JoinedDirs ==
    {d \o <<"/">> \o LastSegment(Unmounted(pattern)) :
        d \in EntriesUnder(LiteralPrefix(Unmounted(pattern)), dirs)}

(***************************************************************************)
(* C5 amended: _dbfs_glob returns, sorted, exactly the paths               *)
(* /dbfs + d + "/" + (last segment of the pattern) for the DIRECTORIES d   *)
(* listed under the pattern's literal prefix for which d + "/" + last      *)
(* segment matches the pattern; plain files contribute nothing.  With      *)
(* children a.txt, b.log, sub/ under /p, pattern /p/*.txt gives exactly    *)
(* /dbfs/p/sub/*.txt.                                                      *)
(***************************************************************************)
C5_GlobJoinsListedDirsWithLeaf ==
    (out.op = "dbfs_glob" /\ ~out.raised) =>
        /\ Elems(out.value) =
              {DBFS \o c : c \in {j \in JoinedDirs : fnmatch(j, Unmounted(pattern))}}
        /\ Len(out.value) = Cardinality(Elems(out.value))
        /\ \A f \in files : \A i \in DOMAIN out.value :
              ~StartsWith(out.value[i], DBFS \o f)

\* C5 witness: /p/*.txt over a.txt, b.log, sub/ gives /dbfs/p/sub/*.txt
C5_Witness ==
    /\ out.op = "dbfs_glob"
    /\ pattern = P \o <<"/", "*", ".", "t", "x", "t">>
    /\ EntriesUnder(P, dirs) = {P_SUB}
    /\ EntriesUnder(P, files) = {P_ATXT, P_BLOG}
    /\ out.value = <<DBFS \o P_SUB \o <<"/", "*", ".", "t", "x", "t">> >>

\* the glob just called was given a pattern whose literal prefix is absent
PrefixMissing ==
    \/ /\ out.op = "dbfs_glob"
       /\ ~Present(LiteralPrefix(Unmounted(pattern)), dirs, files)
    \/ /\ out.op = "hdfs_glob"
       /\ LiteralPrefix(pattern) # <<>>
       /\ ~Present(LiteralPrefix(pattern), dirs, files)

(***************************************************************************)
(* C6: for the mount-style _dbfs_glob and for hdfs_glob, a pattern whose   *)
(* literal prefix directory does not exist on the backend yields an empty  *)
(* result and raises no error.                                             *)
(***************************************************************************)
C6_MissingPrefixGlobIsEmpty ==
    PrefixMissing => (~out.raised /\ out.value = <<>>)

\* the pattern /dbfs/data/*
DATA_STAR == DBFS \o DATA \o <<"/", "*">>

\* every result is /dbfs-prefixed and marker-free, the list strictly ascending
ExternalForm ==
    /\ \A i \in DOMAIN out.value :
          StartsWith(out.value[i], DBFS) /\ ~HasMarker(out.value[i])
    /\ Ascending(out.value)

(***************************************************************************)
(* C7 as stated: every path returned by the mount-style glob starts with   *)
(* /dbfs and holds no "dbfs:" marker, the result is sorted ascending with  *)
(* no duplicate, and pattern /dbfs/data/* over the directory data/x        *)
(* returns /dbfs/data/x.                                                   *)
(***************************************************************************)
C7_ReturnsMatchReprefixed ==
    (out.op = "dbfs_glob" /\ ~out.raised) =>
        /\ ExternalForm
        /\ (pattern = DATA_STAR /\ DATA_X \in dirs) =>
              out.value = <<DBFS \o DATA_X>>

(***************************************************************************)
(* C7 amended: every path returned by the mount-style glob starts with     *)
(* /dbfs and holds no "dbfs:" marker, the result is sorted ascending with  *)
(* no duplicate, and pattern /dbfs/data/* over the directory data/x        *)
(* returns /dbfs/data/x/* (the listed directory joined with the pattern's  *)
(* last segment).                                                          *)
(***************************************************************************)
C7_ReturnsJoinedMatchReprefixed ==
    (out.op = "dbfs_glob" /\ ~out.raised) =>
        /\ ExternalForm
        /\ (pattern = DATA_STAR /\ DATA_X \in dirs) =>
              out.value = <<DBFS \o DATA_X \o <<"/", "*">> >>

\* C7 witness: /dbfs/data/* over data/x gives /dbfs/data/x/*
C7_Witness ==
    /\ out.op = "dbfs_glob"
    /\ pattern = DATA_STAR
    /\ DATA_X \in dirs
    /\ out.value = <<DBFS \o DATA_X \o <<"/", "*">> >>

(***************************************************************************)
(* C9: exists(path) never raises.  _dbfs_exists strips /dbfs, lists the    *)
(* literal prefix of the path once, and returns true exactly when that     *)
(* listing succeeds; hdfs_exists returns true exactly when the status      *)
(* lookup finds the path.                                                  *)
(***************************************************************************)
C9_ExistsNeverRaises ==
    /\ out.op = "dbfs_exists" =>
          /\ ~out.raised
          /\ Len(out.ls) = 1
          /\ LiteralPrefixOf(out.ls[1], Unmounted(pattern))
          /\ out.value = (out.ls[1] \in dirs \cup files)
    /\ out.op = "hdfs_exists" =>
          /\ ~out.raised
          /\ out.value = (pattern \in dirs \cup files)

\* C9 witness: _dbfs_exists on the absent /dbfs/u/sub returns false
C9_Witness ==
    /\ out.op = "dbfs_exists"
    /\ pattern = DBFS \o Path(<<SEG_U, SEG_SUB>>)
    /\ out.ls = <<Path(<<SEG_U, SEG_SUB>>)>>
    /\ out.value = FALSE
    /\ ~out.raised

(***************************************************************************)
(* Spec: two processes, each holding its own instance of the same          *)
(* SparkDataSet (same location, same Version), load, probe and save        *)
(* against one shared backend.                                             *)
(***************************************************************************)
Procs == {1, 2}

\* version tokens ("1-" sorts after "1" as a token, before it inside a path)
V_1 == <<"1">>
V_1DASH == <<"1", "-">>
V_2 == <<"2">>
VERSIONS == {V_1, V_1DASH, V_2}

\* the explicit versions a data set may be constructed with
LoadChoices == {None, V_1}
SaveChoices == {V_1DASH, V_2}

\* the filepath arguments: a /dbfs mount path and an hdfs:// location
SEG_D == <<"d">>
BASE == Path(<<SEG_D>>)
Filepaths == {DBFS \o BASE, HDFS_PREFIX \o BASE}

(***************************************************************************)
(* SparkDataSet.__init__ (lines 264-311): the scheme is split off and the  *)
(* exists/glob functions are chosen from it.                               *)
(***************************************************************************)
NewDataSet(filepath) ==
    LET split == _split_filepath(filepath)
    IN  [fs_prefix |-> split[1],
         filepath  |-> PurePosixPath(split[2]),
         kind      |-> IF split[1] = HDFS_PREFIX THEN "hdfs"
                       ELSE IF StartsWith(split[2], DBFS) THEN "dbfs"
                       ELSE "native"]

\* self._glob_function(pattern); Filepaths yields the two code adapters only
AdapterGlob(pat) ==
    IF adapter.kind = "hdfs" THEN hdfs_glob(pat, dirs, files)
    ELSE _dbfs_glob(pat, dirs, files)

\* self._exists_function(path)
AdapterExists(path) ==
    IF adapter.kind = "hdfs" THEN hdfs_exists(path, dirs, files)
    ELSE _dbfs_exists(path, dirs, files)

(***************************************************************************)
(* The version resolver of AbstractVersionedDataSet (kedro.io.core), after *)
(* its specification: versioned paths, resolve_load_path with its session  *)
(* cache, resolve_save_path with its exists check.                         *)
(***************************************************************************)
\* base_path/version/leaf_name, leaf_name the last component of base_path
VersionedPath(version) ==
    PurePosixJoin(PurePosixJoin(adapter.filepath, version),
                  PosixName(adapter.filepath))

\* the version token of a versioned path
VersionOf(path) ==
    PosixName(PosixParent(path))

\* the maximum of a non-empty set of tokens by string order
MaxVersion(S) ==
    CHOOSE v \in S : \A w \in S \ {v} : StrLess(w, v)

Resolved(status, version, path, n, hit) ==
    [status |-> status, version |-> version, path |-> path, n |-> n, hit |-> hit]

\* resolve_load_path with an empty cache
FetchLoadPath(p) ==
    IF cfg.load # None
    THEN IF AdapterExists(VersionedPath(cfg.load)).value
         THEN Resolved("ok", cfg.load, VersionedPath(cfg.load), 1, FALSE)
         ELSE IF AdapterGlob(VersionedPath(<<"*">>)).raised
         THEN Resolved("ListingError", None, None, 2, FALSE)
         ELSE Resolved("NotFound", None, None, 2, FALSE)
    ELSE LET g == AdapterGlob(VersionedPath(<<"*">>))
         IN  IF g.raised THEN Resolved("ListingError", None, None, 1, FALSE)
             ELSE IF g.value = <<>> THEN Resolved("NotFound", None, None, 1, FALSE)
             ELSE LET v == MaxVersion({VersionOf(x) : x \in Elems(g.value)})
                  IN  Resolved("ok", v, VersionedPath(v), 1, FALSE)

\* resolve_load_path
_get_load_path(p) ==
    IF cache[p] # None
    THEN Resolved("ok", cache[p], VersionedPath(cache[p]), 0, TRUE)
    ELSE FetchLoadPath(p)

\* resolve_save_path
_get_save_path(p) ==
    IF AdapterExists(VersionedPath(cfg.save)).value
    THEN Resolved("VersionConflict", cfg.save, None, 1, FALSE)
    ELSE Resolved("ok", cfg.save, VersionedPath(cfg.save), 1, FALSE)

\* release(): a new session begins, the memoized versions are dropped
Release(p) ==
    /\ pc[p] = "idle"
    /\ cache[p] # None \/ calls[p] > 0
    /\ cache' = [cache EXCEPT ![p] = None]
    /\ first' = [first EXCEPT ![p] = None]
    /\ calls' = [calls EXCEPT ![p] = 0]
    /\ UNCHANGED <<pattern, dirs, files, out, adapter, cfg, pc, ret>>

(***************************************************************************)
(* SparkDataSet._load, _exists, _save (lines 360-383).  The dataframe      *)
(* reader and writer are collaborators: a read succeeds when the path is   *)
(* on the backend, a write materialises the directory and a part file.     *)
(***************************************************************************)
Result(op, r, target, flag) ==
    [op |-> op, status |-> r.status, path |-> r.path, target |-> target,
     hit |-> r.hit, flag |-> flag]

\* _strip_dbfs_prefix(self._fs_prefix + str(path))
EnginePath(path) ==
    _strip_dbfs_prefix(adapter.fs_prefix \o path, DBFS)

\* the backend path the dataframe engine reads or writes for an engine path
BackendPath(engine_path) ==
    _split_filepath(engine_path)[2]

\* the bookkeeping of one resolve_load_path call
Remember(p, r) ==
    /\ cache' = [cache EXCEPT ![p] = IF r.status = "ok" THEN r.version ELSE @]
    /\ first' = [first EXCEPT ![p] = IF r.status = "ok" /\ @ = None THEN r.path ELSE @]
    /\ calls' = [calls EXCEPT ![p] = @ + r.n]

LoadWith(p, r) ==
    /\ pc[p] = "idle"
    /\ calls[p] + r.n <= MaxCalls
    /\ Remember(p, r)
    /\ ret' = [ret EXCEPT ![p] =
                 IF r.status = "ok"
                 THEN Result("load", r, EnginePath(r.path), TRUE)
                 ELSE Result("load", r, None, FALSE)]
    /\ UNCHANGED <<pattern, dirs, files, out, adapter, cfg, pc>>

\* a plausible slip: the load path is resolved afresh, past the session cache
LoadUncached(p) ==
    \E r \in {FetchLoadPath(p)} : LoadWith(p, r)

_load(p) ==
    \E r \in {_get_load_path(p)} : LoadWith(p, r)

ExistsWith(p, r) ==
    /\ pc[p] = "idle"
    /\ calls[p] + r.n <= MaxCalls
    /\ Remember(p, r)
    /\ ret' = [ret EXCEPT ![p] =
                 IF r.status = "ok"
                 THEN Result("exists", r, EnginePath(r.path),
                             Present(BackendPath(EnginePath(r.path)), dirs, files))
                 ELSE Result("exists", r, None, FALSE)]
    /\ UNCHANGED <<pattern, dirs, files, out, adapter, cfg, pc>>

\* a plausible slip: a failed resolution is swallowed and reported as "absent"
ExistsSwallowingNotFound(p) ==
    \E r \in {_get_load_path(p)} :
        ExistsWith(p, IF r.status = "NotFound"
                      THEN [r EXCEPT !.status = "ok", !.path = VersionedPath(<<"*">>)]
                      ELSE r)

_exists(p) ==
    \E r \in {_get_load_path(p)} : ExistsWith(p, r)

\* line 371: the save path is resolved; a raise ends _save before the write
SaveWith(p, r, proceed) ==
    /\ pc[p] = "idle"
    /\ calls[p] + r.n <= MaxCalls
    /\ calls' = [calls EXCEPT ![p] = @ + r.n]
    /\ IF proceed
       THEN /\ pc' = [pc EXCEPT ![p] = "write"]
            /\ ret' = [ret EXCEPT ![p] =
                         Result("save", [r EXCEPT !.status = "writing"],
                                EnginePath(VersionedPath(r.version)), FALSE)]
       ELSE /\ pc' = pc
            /\ ret' = [ret EXCEPT ![p] = Result("save", r, None, FALSE)]
    /\ UNCHANGED <<pattern, dirs, files, out, adapter, cfg, cache, first>>

\* a plausible slip: the save path is built without the resolver's verdict
SaveUnchecked(p) ==
    \E r \in {_get_save_path(p)} : SaveWith(p, r, TRUE)

_save(p) ==
    \E r \in {_get_save_path(p)} : SaveWith(p, r, r.status = "ok")

\* every ancestor directory of a backend path, the path included
RECURSIVE Ancestors(_)
Ancestors(path) ==
    IF path = ROOT THEN {ROOT} ELSE {path} \cup Ancestors(PosixParent(path))

PART == <<"/", "p">>

\* line 372: data.write.save(save_path, ...)
WriteWith(p, refused) ==
    /\ pc[p] = "write"
    /\ pc' = [pc EXCEPT ![p] = "idle"]
    /\ IF refused
       THEN /\ ret' = [ret EXCEPT ![p].status = "VersionConflict"]
            /\ UNCHANGED <<dirs, files>>
       ELSE /\ ret' = [ret EXCEPT ![p].status = "ok",
                                  ![p].flag = BackendPath(ret[p].target) \in dirs]
            /\ dirs' = dirs \cup Ancestors(BackendPath(ret[p].target))
            /\ files' = files \cup {BackendPath(ret[p].target) \o PART}
    /\ UNCHANGED <<pattern, out, adapter, cfg, cache, first, calls>>

\* a plausible change: an atomic create-if-absent, refusing a present target
WriteIfAbsent(p) ==
    WriteWith(p, BackendPath(ret[p].target) \in dirs)

Write(p) ==
    WriteWith(p, FALSE)

(***************************************************************************)
(* The specification.                                                      *)
(***************************************************************************)
SavedTree(vs) ==
    UNION {Ancestors(BackendPath(Path(<<SEG_D, v, SEG_D>>))) : v \in vs}

Init ==
    /\ pattern = <<>>
    /\ out = NoOut
    /\ \E fp \in Filepaths : adapter = NewDataSet(fp)
    /\ \E vs \in SUBSET VERSIONS, base \in BOOLEAN :
          /\ dirs = {ROOT} \cup (IF base THEN {BASE} ELSE {}) \cup SavedTree(vs)
          /\ files = {Path(<<SEG_D, v, SEG_D>>) \o PART : v \in vs}
    /\ cfg \in [load : LoadChoices, save : SaveChoices]
    /\ pc = [p \in Procs |-> "idle"]
    /\ cache = [p \in Procs |-> None]
    /\ first = [p \in Procs |-> None]
    /\ calls = [p \in Procs |-> 0]
    /\ ret = [p \in Procs |->
                [op |-> "none", status |-> "none", path |-> None,
                 target |-> None, hit |-> FALSE, flag |-> FALSE]]

Next ==
    \E p \in Procs :
        \/ _load(p)
        \/ _exists(p)
        \/ _save(p)
        \/ Write(p)
        \/ Release(p)

Spec ==
    Init /\ [][Next]_vars

(***************************************************************************)
(* Vocabulary of the resolver claims, stated on the backend sets.          *)
(***************************************************************************)
\* base/<version>/leaf as the caller sees it
Expected(v) ==
    adapter.filepath \o <<"/">> \o v \o <<"/">> \o SEG_D

\* the tokens whose save directory base/<version>/leaf is on the backend
SavedVersions ==
    {v \in VERSIONS : BASE \o <<"/">> \o v \o <<"/">> \o SEG_D \in dirs}

Latest ==
    CHOOSE v \in SavedVersions : \A w \in SavedVersions : w = v \/ StrLess(w, v)

\* process p completes a _load or an _exists in this step (a step that
\* repeats a cached resolution with the same outcome changes nothing)
ResolveStep(p) ==
    /\ pc[p] = "idle"
    /\ ret'[p].op \in {"load", "exists"}
    /\ ret'[p] # ret[p] \/ calls'[p] > calls[p]

\* process p runs line 371 of _save in this step
SaveStep(p) ==
    /\ pc[p] = "idle"
    /\ ret'[p].op = "save"
    /\ calls'[p] > calls[p]

(***************************************************************************)
(* C1: for any non-empty set of version tokens written as save directories *)
(* base/<version>/leaf, resolve_load_path() with no explicit load version  *)
(* (and nothing cached) returns base/v/leaf for the maximum token v in     *)
(* string order.                                                           *)
(***************************************************************************)
C1_LatestIsMaxToken ==
    [][\A p \in Procs :
          (ResolveStep(p) /\ cfg.load = None /\ cache[p] = None
              /\ SavedVersions # {}) =>
            /\ ret'[p].status = "ok"
            /\ ret'[p].path = Expected(Latest)
            /\ \A w \in SavedVersions \ {Latest} : ret'[p].path # Expected(w)]_vars

\* C1 witness: over the tokens 1 and 1- a fresh load resolves to base/1-/leaf
C1_Witness ==
    /\ cfg.load = None
    /\ SavedVersions = {V_1, V_1DASH}
    /\ ret[1].op = "load"
    /\ ~ret[1].hit
    /\ ret[1].path = Expected(V_1DASH)

(***************************************************************************)
(* C2: a save with explicit version v while base/v/leaf is present on the  *)
(* backend (the adapter's exists reports it) raises VersionConflict and    *)
(* performs no write: directories and files are the same after it, and the *)
(* process is not left before the write.                                   *)
(***************************************************************************)
C2_ConflictWritesNothing ==
    [][\A p \in Procs :
          (SaveStep(p) /\ cfg.save \in SavedVersions) =>
            /\ ret'[p].status = "VersionConflict"
            /\ pc'[p] = "idle"
            /\ dirs' = dirs
            /\ files' = files]_vars

\* C2 witness: a save of a version already on the backend ended in VersionConflict
C2_Witness ==
    /\ ret[1].op = "save"
    /\ ret[1].status = "VersionConflict"
    /\ pc[1] = "idle"
    /\ cfg.save \in SavedVersions

(***************************************************************************)
(* C3: within one session, once resolve_load_path() has returned a path,   *)
(* every later call returns that same path and makes no adapter call,      *)
(* whatever versions other writers add in between.                         *)
(***************************************************************************)
C3_ResolutionIsCached ==
    [][\A p \in Procs :
          (ResolveStep(p) /\ first[p] # None) =>
            /\ ret'[p].status = "ok"
            /\ ret'[p].path = first[p]
            /\ first'[p] = first[p]
            /\ calls'[p] = calls[p]]_vars

\* C3 witness: a resolution served from the cache after one adapter call,
\* while a newer version than the cached one is on the backend
C3_Witness ==
    /\ ret[1].hit
    /\ ret[1].path = first[1]
    /\ calls[1] = 1
    /\ cfg.load = None
    /\ \E v \in SavedVersions : first[1] # Expected(v) /\ Expected(Latest) = Expected(v)

(***************************************************************************)
(* C4: resolve_load_path() with no explicit load version, called when the  *)
(* base directory exists and holds no version directory, raises NotFound   *)
(* and returns no path.                                                    *)
(***************************************************************************)
C4_NoVersionsIsNotFound ==
    [][\A p \in Procs :
          (ResolveStep(p) /\ cfg.load = None /\ cache[p] = None
              /\ BASE \in dirs /\ EntriesUnder(BASE, dirs) = {}) =>
            /\ ret'[p].status = "NotFound"
            /\ ret'[p].path = None
            /\ cache'[p] = None]_vars

\* C4 witness: a load over an empty base directory ended in NotFound
C4_Witness ==
    /\ ret[1].op = "load"
    /\ ret[1].status = "NotFound"
    /\ BASE \in dirs
    /\ EntriesUnder(BASE, dirs) = {}

(***************************************************************************)
(* C8: the save-time check is exists-then-write and not atomic.  A process *)
(* that passed the exists check writes base/v/leaf and returns without     *)
(* VersionConflict whatever has been written since; so two processes       *)
(* saving the same version can both pass the check before either writes,   *)
(* and both write.                                                         *)
(***************************************************************************)
C8_WriteAfterCheckIsUnconditional ==
    [][\A p \in Procs :
          (pc[p] = "write" /\ pc'[p] # "write") =>
            /\ ret'[p].status = "ok"
            /\ BackendPath(ret[p].target) \in dirs']_vars

\* C8 witness: both processes saved the same path, one of them writing over
\* the directory the other had written after both passed the exists check
C8_Witness ==
    /\ ret[1].op = "save" /\ ret[1].status = "ok"
    /\ ret[2].op = "save" /\ ret[2].status = "ok"
    /\ ret[1].path = ret[2].path
    /\ ret[1].flag \/ ret[2].flag
    /\ pc[1] = "idle" /\ pc[2] = "idle"

====
